---- MODULE Spec2Model ----
(***************************************************************************)
(* State-machine model of spectractor/extractor/extractor.py:              *)
(* extract_spectrum_from_image (lines 129-415) and its caller Spectractor  *)
(* (lines 16-126).                                                         *)
(*                                                                         *)
(* Numbers.  Pixel coordinates are integers.  The columns of a             *)
(* ChromaticPSF table (Dx, Dy, Dy_disp_axis, x_c, y_c) are fixed-point     *)
(* numbers: the integer v stored in a table whose resolution is den stands *)
(* for v/den pixels.  Rotation angles are drawn from angles whose cosine   *)
(* and sine are exact fifths, so that the rotation of a table is exact.    *)
(* Fluxes, errors, covariances and wavelengths are abstracted to the name  *)
(* of the stage that produced them.                                        *)
(***************************************************************************)
EXTENDS Integers, Sequences, FiniteSets, TLC

VARIABLES
    parameters,  \* the module spectractor.parameters (process-wide settings)
    pc,          \* position of the caller / of extract_spectrum_from_image
    image,       \* the Image argument of the running call
    args,        \* the arguments ws and right_edge of the running call
    loc,         \* local variables of extract_spectrum_from_image
    heap,        \* the ChromaticPSF objects created by the running call
    spectrum,    \* the Spectrum argument of the running call
    hist         \* observation log of the running call (not program state)

vars == <<parameters, pc, image, args, loc, heap, spectrum, hist>>

----------------------------------------------------------------------------
(* Bounds of the model *)

ImWidth == 12      \* columns of the raw and of the rotated image
ImHeight == 12     \* rows of the raw and of the rotated image
MaxBox == 12       \* largest configured PIXWIDTH_BOXSIZE
MaxCalls == 2      \* extraction calls in one process
MaxIter == 4       \* refinement iterations followed in one call

(* Program constants *)

BoxFloor == 5      \* the floor of the box size, line 202
LoopMinBox == 5    \* the box size from which the loop keeps going, line 201
PullMeanMax == 1   \* threshold of |mean(pull)|, line 201
PullStdMax == 2    \* threshold of std(pull), line 201
OptRegNone == -1   \* PSF_REG when no 2-D fit ran, line 294

----------------------------------------------------------------------------
(* Arithmetic helpers *)

Abs(x) == IF x < 0 THEN -x ELSE x
Min(a, b) == IF a <= b THEN a ELSE b
Max(a, b) == IF a >= b THEN a ELSE b

\* Python int(n/d) for d > 0: truncation toward zero.
PyInt(n, d) == IF n >= 0 THEN n \div d ELSE -((-n) \div d)

\* Python a // b for b > 0 (floor division).
FloorDiv(a, b) == a \div b

\* Number of elements of the Python slice [a:b] of a sequence of n elements.
SliceLen(a, b, n) ==
    LET norm(i) == IF i < 0 THEN Max(0, i + n) ELSE Min(i, n)
    IN  Max(0, norm(b) - norm(a))

\* np.arange(a, b, 1)
Arange(a, b) == [i \in 1..Max(0, b - a) |-> a + i - 1]

\* np.argmin over a non-empty sequence: 0-based index of the first minimum.
ArgMin(f) ==
    CHOOSE i \in 0..(Len(f) - 1) :
        /\ \A j \in 0..(Len(f) - 1) : f[i + 1] <= f[j + 1]
        /\ \A j \in 0..(i - 1) : f[j + 1] > f[i + 1]

SeqMax(f) == CHOOSE m \in {f[i] : i \in 1..Len(f)} : \A i \in 1..Len(f) : f[i] <= m
SeqMin(f) == CHOOSE m \in {f[i] : i \in 1..Len(f)} : \A i \in 1..Len(f) : f[i] >= m

\* Integer square root of n >= 0.
ISqrt(n) == CHOOSE r \in 0..(5 * (ImWidth + ImHeight)) : r * r <= n /\ n < (r + 1) * (r + 1)

Sign(x) == IF x > 0 THEN 1 ELSE IF x < 0 THEN -1 ELSE 0

Unset == 0 - 1000      \* Python None / attribute not yet assigned

NaN == 0 - 999         \* numpy nan: the nanmean and nanstd of no value

\* a > b of Python for a number or nan a: no comparison with nan is true.
GreaterThan(a, b) == a # NaN /\ a > b

----------------------------------------------------------------------------
(* Inputs *)

Modes == {"PSF_1D", "PSF_2D", "PSF_0D"}

\* Configured values of parameters.PIXWIDTH_BOXSIZE.
ConfigBoxes == {3, BoxFloor, MaxBox}

\* Rotation angles of the image, as <<5 cos, 5 sin>>: 0 and +-atan(3/4).
Rotations == {<<5, 0>>, <<4, 3>>, <<4, -3>>}

\* The common denominator of the cosines and sines of Rotations.
RotDen == CHOOSE d \in 1..10 : \A cs \in Rotations : cs[1] * cs[1] + cs[2] * cs[2] = d * d

\* What the pull residuals of the background rows are, as a function of the
\* box size the background was estimated with: <<|mean(pull)|, std(pull)>>
\* is <<0, 1>> for a box size <= ok_box and `bad' for a larger one.
PullProfiles ==
    { [ok_box |-> 0, bad |-> <<2, 1>>],
      [ok_box |-> BoxFloor, bad |-> <<0, 3>>],
      [ok_box |-> MaxBox \div 2, bad |-> <<2, 1>>],
      [ok_box |-> MaxBox, bad |-> <<0, 3>>] }

RawPullProfiles == { [ok_box |-> 0, bad |-> <<0, 3>>], [ok_box |-> MaxBox, bad |-> <<2, 1>>] }

Images ==
    [ target_pixcoords : {<<1, ImHeight \div 2>>, <<2, ImHeight \div 2>>},
      target_pixcoords_rotated : {<<1, 1>>, <<1, ImHeight \div 2>>},
      rotation_angle : Rotations,
      pull_rotated : PullProfiles,
      pull_raw : RawPullProfiles,
      fit_y_c : {0, 1} ]

Arguments == [ ws : {<<1, 2>>, <<2, 3>>}, right_edge : {ImWidth - 3, ImWidth - 1} ]

\* The disperser: wavelength (nm) at the signed distance d (pixels) from the
\* order 0, a strictly increasing function.
grating_pixel_to_lambda(d) == 100 * d

----------------------------------------------------------------------------
(* Objects *)

NoLocals ==
    [ xmin |-> Unset, xmax |-> Unset, ymin |-> Unset, ymax |-> Unset,
      Nx |-> Unset, Ny |-> Unset, frame |-> "none",
      target_pixcoords_spectrogram |-> <<Unset, Unset>>,
      bgd_index |-> <<>>,
      bgd_model_func |-> Unset, bgd_res |-> <<Unset, Unset>>, bgd |-> Unset,
      s |-> 0, Dx_rot |-> <<>>, w |-> "none", opt_reg |-> Unset ]

\* Spectrum(image=image), before the extraction fills it.
NewSpectrum ==
    [ pixels |-> <<>>, data |-> "none", cov_matrix |-> "none", lambdas |-> "none",
      chromatic_psf |-> 0, PSF_REG |-> Unset, PSF_REG_writes |-> 0,
      spectrogram |-> <<Unset, Unset>>, spectrogram_bgd |-> Unset,
      spectrogram_fit |-> "none",
      spectrogram_x0 |-> Unset, spectrogram_y0 |-> Unset,
      spectrogram_xmin |-> Unset, spectrogram_xmax |-> Unset,
      spectrogram_ymin |-> Unset, spectrogram_ymax |-> Unset ]

NoImage == [ target_pixcoords |-> <<0, 0>>, target_pixcoords_rotated |-> <<0, 0>>,
             rotation_angle |-> <<5, 0>>,
             pull_rotated |-> [ok_box |-> 0, bad |-> <<0, 0>>],
             pull_raw |-> [ok_box |-> 0, bad |-> <<0, 0>>], fit_y_c |-> 0 ]

NoArgs == [ ws |-> <<0, 0>>, right_edge |-> 0 ]

NoPSF == [ Nx |-> 0, Ny |-> 0, x0 |-> 0, y0 |-> 0, den |-> 1, opt_reg |-> Unset,
           amplitude |-> "none", table |-> <<>> ]

NoHeap == [i \in 1..2 |-> NoPSF]

NewHist(h) ==
    [ calls |-> h.calls + 1, configured_box |-> h.configured_box,
      box_at_entry |-> Unset, trace |-> <<>>, box_log |-> <<>>, iters |-> 0,
      err |-> "none", arrays_read |-> FALSE, plotted |-> 0,
      fit_failed |-> FALSE, plot_failed |-> FALSE, pull_rows |-> <<>> ]

----------------------------------------------------------------------------
(* Initial state: the configuration is loaded, no extraction is running. *)

\* The settings a configuration file gives to the parameters module.
Configurations ==
    [ PIXWIDTH_BOXSIZE : ConfigBoxes,
      PSF_EXTRACTION_MODE : Modes,
      DEBUG : BOOLEAN,
      LSST_SAVEFIGPATH : BOOLEAN,
      PSF_FIT_REG_PARAM : {1},
      LAMBDA_MIN : {300},
      LAMBDA_MAX : {600, 700} ]

Init ==
    /\ parameters \in Configurations
    /\ pc = "idle"
    /\ image = NoImage
    /\ args = NoArgs
    /\ loc = NoLocals
    /\ heap = NoHeap
    /\ spectrum = NewSpectrum
    /\ hist = [ calls |-> 0, configured_box |-> parameters.PIXWIDTH_BOXSIZE,
                box_at_entry |-> Unset, trace |-> <<>>, box_log |-> <<>>, iters |-> 0,
                err |-> "none", arrays_read |-> FALSE, plotted |-> 0,
                fit_failed |-> FALSE, plot_failed |-> FALSE, pull_rows |-> <<>> ]

\* Line 77, in a later run of Spectractor in the same process:
\* load_config(config) assigns the settings of the configuration file to the
\* process-wide parameters.  A file that does not name the box size leaves
\* the one the last extraction left.
LoadConfig ==
    /\ pc = "idle"
    /\ hist.calls < MaxCalls
    /\ \E cfg \in Configurations, has_box \in BOOLEAN :
          /\ parameters' = IF has_box THEN cfg
                           ELSE [cfg EXCEPT !.PIXWIDTH_BOXSIZE = parameters.PIXWIDTH_BOXSIZE]
          /\ hist' = [hist EXCEPT !.configured_box =
                                     IF has_box THEN cfg.PIXWIDTH_BOXSIZE ELSE @]
    /\ UNCHANGED <<pc, image, args, loc, heap, spectrum>>

Log(h, stage) == [h EXCEPT !.trace = Append(@, stage)]

Raise(h, kind) == [h EXCEPT !.err = kind]

----------------------------------------------------------------------------
(* extract_spectrum_from_image *)

\* A caller creates a Spectrum for an image and calls the function.
Call ==
    /\ pc = "idle"
    /\ hist.calls < MaxCalls
    /\ \E im \in Images, a \in Arguments :
          /\ image' = im
          /\ args' = a
    /\ loc' = NoLocals
    /\ heap' = NoHeap
    /\ spectrum' = NewSpectrum
    /\ hist' = [NewHist(hist) EXCEPT !.box_at_entry = parameters.PIXWIDTH_BOXSIZE]
    /\ pc' = "check_mode"
    /\ UNCHANGED parameters

\* Mutant of ModeSupported: only the prefix of the mode is looked at.
ModeSupportedPrefix(mode) == mode \in Modes

\* Line 159.
ModeSupported(mode) == mode = "PSF_1D" \/ mode = "PSF_2D"

\* Lines 159-160.
CheckMode ==
    /\ pc = "check_mode"
    /\ IF ModeSupported(parameters.PSF_EXTRACTION_MODE)
       THEN /\ pc' = "crop_rotated"
            /\ hist' = hist
       ELSE /\ pc' = "raised"
            /\ hist' = Raise(hist, "NotImplementedError")
    /\ UNCHANGED <<parameters, image, args, loc, heap, spectrum>>

\* Lines 180-183: the wavelength of every column of a row of n columns, for a
\* target at column tx.
ColumnLambdas(n, tx) == [i \in 1..n |-> grating_pixel_to_lambda((i - 1) - tx)]

\* int(np.argmin(np.abs(lambdas - target))), lines 182, 183, 265, 266; the
\* wavelengths are given in units of 1/den nm.
ClosestIndex(lambdas, target, den) ==
    ArgMin([i \in 1..Len(lambdas) |-> Abs(lambdas[i] - target * den)])

\* Lines 173-176: the rows of the rotated crop.
RotatedYmax(Ny, y0, ws) == Min(Ny, y0 + ws[2])
RotatedYmin(y0, ws) == Max(0, y0 - ws[2])

\* Lines 182-183: the columns of the rotated crop.
RotatedXmin(lambdas, p) == ClosestIndex(lambdas, p.LAMBDA_MIN - 0, 1)
RotatedXmax(lambdas, p, right_edge) ==
    Min(right_edge, ClosestIndex(lambdas, p.LAMBDA_MAX + 0, 1))

\* Mutant of CropSize: the end of the slice is taken as included.
CropSizeInclusive(min, max, n) == SliceLen(min, max + 1, n)

\* Lines 186-188 and 282-284: the size along one axis of data[min:max], for
\* an array of n elements along that axis.
CropSize(min, max, n) == SliceLen(min, max, n)

\* Lines 168-193: copy the rotated arrays, cut them at right_edge, compute the
\* window and crop.
CropRotated ==
    /\ pc = "crop_rotated"
    /\ LET NxFull == SliceLen(0, args.right_edge, ImWidth)
           NyFull == ImHeight
           y0 == image.target_pixcoords_rotated[2]
           ymax == RotatedYmax(NyFull, y0, args.ws)
           ymin == RotatedYmin(y0, args.ws)
           lambdas == ColumnLambdas(NxFull, image.target_pixcoords_rotated[1])
           xmin == RotatedXmin(lambdas, parameters)
           xmax == RotatedXmax(lambdas, parameters, args.right_edge)
       IN  loc' = [loc EXCEPT
                     !.xmin = xmin, !.xmax = xmax, !.ymin = ymin, !.ymax = ymax,
                     !.Ny = CropSize(ymin, ymax, NyFull),
                     !.Nx = CropSize(xmin, xmax, NxFull),
                     !.frame = "rotated",
                     !.target_pixcoords_spectrogram =
                         << image.target_pixcoords_rotated[1] - xmin,
                            image.target_pixcoords_rotated[2] - ymin >>]
    /\ hist' = [Log(hist, "crop_rotated") EXCEPT !.arrays_read = TRUE]
    /\ pc' = "bgd_rotated"
    /\ UNCHANGED <<parameters, image, args, heap, spectrum>>

\* extract_spectrogram_background_sextractor(data, err, ws=ws), lines 197,
\* 207 and 287: it is given no box size and builds the model with the
\* process-wide parameters.PIXWIDTH_BOXSIZE.  The model is named by that
\* box size.
BackgroundModel(p) == p.PIXWIDTH_BOXSIZE

\* Lines 198 and 208: <<|nanmean(bgd_res)|, nanstd(bgd_res)>> of the pull over
\* the background rows `rows' of a crop of Nx columns, for the model built
\* with box size `box'.  With no background row or no column bgd_res is
\* empty and both statistics are nan.
PullStats(profile, box, rows, Nx) ==
    IF Len(rows) = 0 \/ Nx <= 0 THEN <<NaN, NaN>>
    ELSE IF box <= profile.ok_box THEN <<0, 1>>
    ELSE profile.bad

\* Mutant of bgd_index: the upper rows start one row further from the centre.
bgd_index_symmetric(Ny, ws) ==
    Arange(0, FloorDiv(Ny, 2) - ws[1]) \o Arange(FloorDiv(Ny, 2) + ws[1] + 1, Ny)

\* Line 196: the rows of the crop over which the pull is taken.
bgd_index(Ny, ws) ==
    Arange(0, FloorDiv(Ny, 2) - ws[1]) \o Arange(FloorDiv(Ny, 2) + ws[1], Ny)

\* Lines 198 and 208: the pull of a crop of Ny rows is indexed by `rows'.
PulledRows(Ny, ws, rows) == [Ny |-> Ny, w0 |-> ws[1], rows |-> rows]

\* Lines 196-198: first background estimation on the rotated crop.
BgdRotated ==
    /\ pc = "bgd_rotated"
    /\ LET box == BackgroundModel(parameters)
           idx == bgd_index(loc.Ny, args.ws)
       IN  /\ loc' = [loc EXCEPT !.bgd_index = idx,
                                  !.bgd_model_func = box,
                                  !.bgd_res = PullStats(image.pull_rotated, box, idx, loc.Nx)]
           /\ hist' = [Log(hist, "bgd_rotated") EXCEPT
                         !.box_log = Append(@, box),
                         !.pull_rows = Append(@, PulledRows(loc.Ny, args.ws, idx))]
    /\ pc' = "bgd_loop"
    /\ UNCHANGED <<parameters, image, args, heap, spectrum>>

\* Line 201, first operand: the pull criterion is not satisfied.
PullCriterionFails(res) ==
    GreaterThan(res[1], PullMeanMax) \/ GreaterThan(res[2], PullStdMax)

\* Line 201: the condition of the while loop.
LoopCondition(res, box) == PullCriterionFails(res) /\ box >= LoopMinBox

\* Mutant of HalveBox: the floor is forgotten.
HalveBoxNoFloor(box) == FloorDiv(box, 2)

\* Line 202.
HalveBox(box) == Max(BoxFloor, FloorDiv(box, 2))

\* Lines 201-208: one iteration of the refinement loop.
BgdRotatedIterate ==
    /\ pc = "bgd_loop"
    /\ LoopCondition(loc.bgd_res, parameters.PIXWIDTH_BOXSIZE)
    /\ hist.iters < MaxIter
    /\ parameters' = [parameters EXCEPT !.PIXWIDTH_BOXSIZE = HalveBox(@)]
    /\ LET box == BackgroundModel(parameters')
       IN  /\ loc' = [loc EXCEPT !.bgd_model_func = box,
                                  !.bgd_res = PullStats(image.pull_rotated, box,
                                                       loc.bgd_index, loc.Nx)]
           /\ hist' = [hist EXCEPT
                         !.box_log = Append(@, box), !.iters = @ + 1,
                         !.pull_rows = Append(@, PulledRows(loc.Ny, args.ws,
                                                            loc.bgd_index))]
    /\ UNCHANGED <<pc, image, args, heap, spectrum>>

\* Line 201: the loop condition is false, the loop is left.
BgdRotatedExit ==
    /\ pc = "bgd_loop"
    /\ ~LoopCondition(loc.bgd_res, parameters.PIXWIDTH_BOXSIZE)
    /\ pc' = "transverse_fit"
    /\ UNCHANGED <<parameters, image, args, loc, heap, spectrum, hist>>

----------------------------------------------------------------------------
(* ChromaticPSF, of spectractor/extractor/chromaticpsf.py *)

ZeroRow == [Dx |-> 0, Dy |-> 0, Dy_disp_axis |-> 0, x_c |-> 0, y_c |-> 0]

\* ChromaticPSF(psf, Nx=Nx, Ny=Ny, x0=x0, y0=y0, deg=..., saturation=...): a
\* table of zeros with one row per column; den is the resolution in which
\* the model keeps the table's columns.
ChromaticPSF(Nx, Ny, x0, y0, den, p) ==
    [ Nx |-> Nx, Ny |-> Ny, x0 |-> x0, y0 |-> y0, den |-> den,
      opt_reg |-> p.PSF_FIT_REG_PARAM, amplitude |-> "zeros",
      table |-> [i \in 1..Nx |-> ZeroRow] ]

\* s.fit_transverse_PSF1D_profile(...): every row gets the centre of its
\* column, x_c the column and y_c the row of the target.
fit_transverse_PSF1D_profile(s) ==
    [s EXCEPT !.amplitude = "transverse",
              !.table = [i \in 1..s.Nx |->
                           [s.table[i] EXCEPT !.x_c = (i - 1) * s.den,
                                              !.y_c = s.y0 * s.den]]]

\* s.fit_chromatic_psf(...), the part that succeeded: the amplitudes are those
\* of the fit, and the fitted centre is moved by dy pixels across the
\* dispersion axis.
fit_chromatic_psf(s, result, dy, reg) ==
    [s EXCEPT !.amplitude = result, !.opt_reg = reg,
              !.table = [i \in 1..Len(s.table) |->
                           [s.table[i] EXCEPT !.y_c = @ + dy * s.den]]]

\* s.rotate_table(angle), with <<5 cos(angle), 5 sin(angle)>> = cs: the pairs
\* (Dx, Dy) and (Dx, Dy_disp_axis) are rotated; Dx is the one of the
\* dispersion axis.
rotate_table(s, cs) ==
    [s EXCEPT !.table = [i \in 1..Len(s.table) |->
        LET r == s.table[i]
        IN  [r EXCEPT !.Dx = (cs[1] * r.Dx + cs[2] * r.Dy_disp_axis) \div RotDen,
                      !.Dy = (cs[1] * r.Dy - cs[2] * r.Dx) \div RotDen,
                      !.Dy_disp_axis = (cs[1] * r.Dy_disp_axis - cs[2] * r.Dx) \div RotDen]]]

\* s.get_distance_along_dispersion_axis(): sign(Dx) sqrt(Dx^2 + Dy_disp_axis^2)
get_distance_along_dispersion_axis(s) ==
    [i \in 1..Len(s.table) |->
        Sign(s.table[i].Dx) *
        ISqrt(s.table[i].Dx * s.table[i].Dx
              + s.table[i].Dy_disp_axis * s.table[i].Dy_disp_axis)]

Column(s, name) == [i \in 1..Len(s.table) |-> s.table[i][name]]

----------------------------------------------------------------------------

\* Resolution of the table of the 1-D pass: the denominator of the rotations.
Den1 == RotDen

\* Lines 222-224.
FillSpectrumTransverse(sp, xmin, xmax) ==
    [sp EXCEPT !.pixels = Arange(xmin, xmax), !.data = "transverse"]

\* Lines 214-225: transverse fit of a new ChromaticPSF, first fill of the
\* Spectrum.
TransverseFit ==
    /\ pc = "transverse_fit"
    /\ heap' = [heap EXCEPT ![1] =
                  fit_transverse_PSF1D_profile(
                      ChromaticPSF(loc.Nx, loc.Ny, loc.target_pixcoords_spectrogram[1],
                                   loc.target_pixcoords_spectrogram[2], Den1, parameters))]
    /\ loc' = [loc EXCEPT !.s = 1]
    /\ spectrum' = FillSpectrumTransverse(spectrum, loc.xmin, loc.xmax)
    /\ hist' = Log(hist, "transverse_fit")
    /\ pc' = IF parameters.DEBUG THEN "plot_table" ELSE "fit_1d"
    /\ UNCHANGED <<parameters, image, args>>

\* What follows a diagnostic plot: the plot is not guarded by any handler, so
\* an exception raised in it leaves extract_spectrum_from_image.
AfterPlot(ok, next) == IF ok THEN next ELSE "raised"

\* The log after a plot that succeeded or not and led to the position q.
PlotOutcome(h, ok, q) ==
    LET g == [h EXCEPT !.plot_failed = @ \/ ~ok]
    IN  IF q = "raised" THEN Raise(g, "PlotError") ELSE [g EXCEPT !.plotted = @ + 1]

\* Lines 226-227: s.plot_summary() when DEBUG is set.
PlotTable ==
    /\ pc = "plot_table"
    /\ \E ok \in BOOLEAN :
          /\ pc' = AfterPlot(ok, "fit_1d")
          /\ hist' = PlotOutcome(hist, ok, pc')
    /\ UNCHANGED <<parameters, image, args, loc, heap, spectrum>>

\* Mutant of AfterFit: the failure of the fit is swallowed.
AfterFitSwallowed(ok, next) == next

\* What follows a global fit: the call is not guarded by any handler, so a
\* failure of the fit leaves extract_spectrum_from_image.
AfterFit(ok, next) == IF ok THEN next ELSE "raised"

\* The log after a global fit that converged or not.
FitOutcome(h, stage, ok) == [Log(h, stage) EXCEPT !.fit_failed = @ \/ ~ok]

\* Lines 236-238 and 326-328.
FillSpectrumFit(sp, result) == [sp EXCEPT !.data = result, !.cov_matrix = result]

\* Lines 230-239: global fit with mode 1D and method noprior.
GlobalFit1D ==
    /\ pc = "fit_1d"
    /\ \E ok \in BOOLEAN :
          /\ pc' = AfterFit(ok, "derotate")
          /\ IF pc' = "raised"
             THEN /\ hist' = Raise(FitOutcome(hist, "fit_1D_noprior", ok), "FitError")
                  /\ UNCHANGED <<heap, spectrum, loc>>
             ELSE /\ hist' = FitOutcome(hist, "fit_1D_noprior", ok)
                  /\ heap' = [heap EXCEPT ![loc.s] =
                                fit_chromatic_psf(@, "fit_1D_noprior", image.fit_y_c,
                                                  @.opt_reg)]
                  /\ loc' = [loc EXCEPT !.w = "fit_1D_noprior"]
                  /\ spectrum' = [FillSpectrumFit(spectrum, "fit_1D_noprior")
                                    EXCEPT !.chromatic_psf = loc.s]
    /\ UNCHANGED <<parameters, image, args>>

\* Lines 241-246: the offsets of the table in the rotated frame.
RotatedOffsets(s, Dx_rot, ty_spectrogram) ==
    [s EXCEPT !.table = [i \in 1..Len(s.table) |->
        [s.table[i] EXCEPT !.Dx = Dx_rot[i] * s.den,
                           !.Dy = s.table[i].y_c - ty_spectrogram * s.den,
                           !.Dy_disp_axis = 0]]]

\* -image.rotation_angle, line 251.
NegAngle(cs) == <<cs[1], -cs[2]>>

\* Lines 241-253: offsets in the rotated frame, then rotation of the table by
\* the opposite of the rotation angle of the image.
Derotate ==
    /\ pc = "derotate"
    /\ LET Dx_rot == [i \in 1..Len(spectrum.pixels) |->
                         spectrum.pixels[i] - image.target_pixcoords_rotated[1]]
       IN  /\ loc' = [loc EXCEPT !.Dx_rot = Dx_rot]
           /\ heap' = [heap EXCEPT ![loc.s] =
                         rotate_table(
                             RotatedOffsets(@, Dx_rot,
                                 image.target_pixcoords_rotated[2] - loc.ymin),
                             NegAngle(image.rotation_angle))]
    /\ hist' = Log(hist, "derotate")
    /\ pc' = "windows_raw"
    /\ UNCHANGED <<parameters, image, args, spectrum>>

\* Lines 261-262: the rows of the unrotated crop.
RawYmax(Ny, y0, s, ws) ==
    Min(Ny, y0 + PyInt(SeqMax(Column(s, "Dy_disp_axis")), s.den) + ws[2] + 1)
RawYmin(y0, s, ws) ==
    Max(0, y0 + PyInt(SeqMin(Column(s, "Dy_disp_axis")), s.den) - ws[2])

\* Lines 263-268: the columns of the unrotated crop.
RawXmin(s, x0, p) ==
    LET lambdas == [i \in 1..Len(s.table) |->
                       grating_pixel_to_lambda(get_distance_along_dispersion_axis(s)[i])]
        lambda_min_index == ClosestIndex(lambdas, p.LAMBDA_MIN - 0, s.den)
    IN  PyInt(s.table[lambda_min_index + 1].Dx + x0 * s.den, s.den)
RawXmax(s, x0, p, right_edge) ==
    LET lambdas == [i \in 1..Len(s.table) |->
                       grating_pixel_to_lambda(get_distance_along_dispersion_axis(s)[i])]
        lambda_max_index == ClosestIndex(lambdas, p.LAMBDA_MAX + 0, s.den)
    IN  Min(right_edge, PyInt(s.table[lambda_max_index + 1].Dx + x0 * s.den, s.den) + 1)

\* Mutant of RecenterTable: the centres are computed from the target position
\* the table had in the rotated crop.
RecenterTableStale(s, tps) ==
    [s EXCEPT !.x0 = tps[1], !.y0 = tps[2],
              !.table = [i \in 1..Len(s.table) |->
                  [s.table[i] EXCEPT !.y_c = s.table[i].Dy + s.y0 * s.den,
                                     !.x_c = s.table[i].Dx + s.x0 * s.den]]]

\* Lines 272-277: the table is recentred on the target position in the
\* unrotated spectrogram.
RecenterTable(s, tps) ==
    [s EXCEPT !.x0 = tps[1], !.y0 = tps[2],
              !.table = [i \in 1..Len(s.table) |->
                  [s.table[i] EXCEPT !.y_c = s.table[i].Dy + tps[2] * s.den,
                                     !.x_c = s.table[i].Dx + tps[1] * s.den]]]

\* Lines 256-279: the window of the spectrogram in the unrotated image.
RecomputeWindows ==
    /\ pc = "windows_raw"
    /\ LET s == heap[loc.s]
           NyFull == ImHeight
           x0 == image.target_pixcoords[1]
           y0 == image.target_pixcoords[2]
           ymax == RawYmax(NyFull, y0, s, args.ws)
           ymin == RawYmin(y0, s, args.ws)
           xmin == RawXmin(s, x0, parameters)
           xmax == RawXmax(s, x0, parameters, args.right_edge)
           tps == <<image.target_pixcoords[1] - xmin, image.target_pixcoords[2] - ymin>>
       IN  /\ loc' = [loc EXCEPT !.xmin = xmin, !.xmax = xmax, !.ymin = ymin,
                                  !.ymax = ymax, !.Ny = NyFull,
                                  !.Nx = SliceLen(0, args.right_edge, ImWidth),
                                  !.frame = "raw_full",
                                  !.target_pixcoords_spectrogram = tps]
           /\ heap' = [heap EXCEPT ![loc.s] = RecenterTable(@, tps)]
    /\ hist' = Log(hist, "windows_raw")
    /\ pc' = "crop_raw"
    /\ UNCHANGED <<parameters, image, args, spectrum>>

\* Lines 282-284: crop of the unrotated arrays.
CropRaw ==
    /\ pc = "crop_raw"
    /\ loc' = [loc EXCEPT !.Ny = CropSize(loc.ymin, loc.ymax, loc.Ny),
                           !.Nx = CropSize(loc.xmin, loc.xmax, loc.Nx),
                           !.frame = "raw"]
    /\ hist' = Log(hist, "crop_raw")
    /\ pc' = "bgd_raw"
    /\ UNCHANGED <<parameters, image, args, heap, spectrum>>

\* Mutant of Is2D: the 2-D pass runs whatever the mode.
Is2DAlways(mode) == mode = mode

\* Line 295.
Is2D(mode) == mode = "PSF_2D"

\* Lines 287-294: the one background estimation on the unrotated crop; no
\* pull is computed and the box size is not refined.
BgdRaw ==
    /\ pc = "bgd_raw"
    /\ LET box == BackgroundModel(parameters)
       IN  /\ loc' = [loc EXCEPT !.bgd_model_func = box, !.bgd = box,
                                  !.opt_reg = OptRegNone]
           /\ hist' = [Log(hist, "bgd_raw") EXCEPT !.box_log = Append(@, box)]
    /\ pc' = IF Is2D(parameters.PSF_EXTRACTION_MODE) THEN "reinit_2d" ELSE "finalize"
    /\ UNCHANGED <<parameters, image, args, heap, spectrum>>

\* np.interp(x, xp, fp) for an integer x and increasing integers xp.
Interp(x, xp, fp) ==
    IF x <= xp[1] THEN fp[1]
    ELSE IF x >= xp[Len(xp)] THEN fp[Len(xp)]
    ELSE LET k == CHOOSE j \in 1..(Len(xp) - 1) : xp[j] <= x /\ x < xp[j + 1]
         IN  fp[k] + ((fp[k + 1] - fp[k]) * (x - xp[k])) \div (xp[k + 1] - xp[k])

\* s.from_table_to_poly_params()[s.Nx:], line 297: the polynomials fitted to
\* the shape columns of the table.  The centres of the derotated table are
\* linear in the column, so that each polynomial is the line through the
\* first and the last row, in the resolution of the table.
from_table_to_poly_params(s) ==
    [ x_c |-> <<s.table[1].x_c, s.table[Len(s.table)].x_c>>,
      y_c |-> <<s.table[1].y_c, s.table[Len(s.table)].y_c>>,
      den |-> s.den ]

\* Resolution of a reinitialized table of Nx rows fed with priors of
\* resolution den: the polynomials are evaluated on np.linspace(-1, 1, Nx).
Den2(Nx, den) == den * Max(1, Nx - 1)

\* s.from_poly_params_to_profile_params(...) and
\* s.fill_table_with_profile_params(...), lines 308-309: the value of the
\* line <<first, last>> at the row j of Nx, in the resolution Den2.
LegVal(line, j, Nx) == line[1] * Max(1, Nx - 1) + (j - 1) * (line[2] - line[1])

\* Lines 297-310: a new ChromaticPSF on the unrotated crop, filled with the
\* 1-D results as first guess.
ReinitTable(old, Nx, Ny, xmin, tps, tx, Dx_rot, p) ==
    LET priors == from_table_to_poly_params(old)
        den == Den2(Nx, old.den)
        k == den \div old.den
        new == ChromaticPSF(Nx, Ny, tps[1], tps[2], den, p)
    IN  [new EXCEPT
           !.amplitude = "interp_1D",
           !.table = [j \in 1..Nx |->
              LET Dx == (xmin + j - 1) - tx
                  y_c == LegVal(priors.y_c, j, Nx)
              IN  [ Dx |-> Dx * den,
                    Dy_disp_axis |-> k * Interp(Dx, Dx_rot, Column(old, "Dy_disp_axis")),
                    x_c |-> LegVal(priors.x_c, j, Nx),
                    y_c |-> y_c,
                    Dy |-> y_c - tps[2] * den ]]]

Reinit2D ==
    /\ pc = "reinit_2d"
    /\ heap' = [heap EXCEPT ![2] =
                  ReinitTable(heap[loc.s], loc.Nx, loc.Ny, loc.xmin,
                              loc.target_pixcoords_spectrogram,
                              image.target_pixcoords[1], loc.Dx_rot, parameters)]
    /\ loc' = [loc EXCEPT !.s = 2]
    /\ hist' = Log(hist, "reinit_2d")
    /\ pc' = "fit_2d"
    /\ UNCHANGED <<parameters, image, args, spectrum>>

\* Values the regularisation of the 2-D fit may settle on.
RegValues == {1, 2}

\* Mutant of FittedOptReg: the indicator is read from the table object of
\* the 1-D pass.
FittedOptRegOfFirstTable(h, s) == h[1].opt_reg

\* Line 334: opt_reg = s.opt_reg, s being the object that was just fitted.
FittedOptReg(h, s) == h[s].opt_reg

\* Lines 330-332: Dy recomputed from the fitted centres.
OffsetsFromCentres(s, tps) ==
    [s EXCEPT !.table = [i \in 1..Len(s.table) |->
        [s.table[i] EXCEPT !.Dy = s.table[i].y_c - tps[2] * s.den]]]

\* Lines 312-334: global fit with mode 2D and method psf1d, results saved.
GlobalFit2D ==
    /\ pc = "fit_2d"
    /\ \E ok \in BOOLEAN, reg \in RegValues :
          /\ pc' = AfterFit(ok, "finalize")
          /\ IF pc' = "raised"
             THEN /\ hist' = Raise(FitOutcome(hist, "fit_2D_psf1d", ok), "FitError")
                  /\ UNCHANGED <<heap, spectrum, loc>>
             ELSE /\ hist' = FitOutcome(hist, "fit_2D_psf1d", ok)
                  /\ heap' = [heap EXCEPT ![loc.s] =
                                OffsetsFromCentres(
                                    fit_chromatic_psf(@, "fit_2D_psf1d", image.fit_y_c, reg),
                                    loc.target_pixcoords_spectrogram)]
                  /\ loc' = [loc EXCEPT !.w = "fit_2D_psf1d", !.opt_reg = FittedOptReg(heap', loc.s)]
                  /\ spectrum' = [FillSpectrumFit(spectrum, "fit_2D_psf1d") EXCEPT
                                    !.spectrogram_fit = "fit_2D_psf1d",
                                    !.pixels = [i \in 1..Len(heap'[loc.s].table) |->
                                                  heap'[loc.s].table[i].Dx \div heap'[loc.s].den],
                                    !.chromatic_psf = loc.s]
    /\ UNCHANGED <<parameters, image, args>>

\* Lines 335-358: header, first guess of the wavelengths, spectrogram and its
\* geometry.
SaveResults(sp, l) ==
    [sp EXCEPT !.PSF_REG = l.opt_reg, !.PSF_REG_writes = @ + 1,
               !.lambdas = "first_guess",
               !.spectrogram = <<l.Ny, l.Nx>>,
               !.spectrogram_bgd = l.bgd,
               !.spectrogram_x0 = l.target_pixcoords_spectrogram[1],
               !.spectrogram_y0 = l.target_pixcoords_spectrogram[2],
               !.spectrogram_xmin = l.xmin, !.spectrogram_xmax = l.xmax,
               !.spectrogram_ymin = l.ymin, !.spectrogram_ymax = l.ymax]

Finalize ==
    /\ pc = "finalize"
    /\ spectrum' = SaveResults(spectrum, loc)
    /\ hist' = Log(hist, "finalize")
    /\ pc' = IF parameters.DEBUG THEN "plot_fwhm"
             ELSE IF parameters.LSST_SAVEFIGPATH THEN "plot_summary"
             ELSE "return"
    /\ UNCHANGED <<parameters, image, args, loc, heap>>

\* Lines 361-376: the FWHM plot when DEBUG is set.
PlotFwhm ==
    /\ pc = "plot_fwhm"
    /\ \E ok \in BOOLEAN :
          /\ pc' = AfterPlot(ok, "plot_summary")
          /\ hist' = PlotOutcome(hist, ok, pc')
    /\ UNCHANGED <<parameters, image, args, loc, heap, spectrum>>

\* Lines 379-414: the summary plot when DEBUG or LSST_SAVEFIGPATH is set.
PlotSummary ==
    /\ pc = "plot_summary"
    /\ \E ok \in BOOLEAN :
          /\ pc' = AfterPlot(ok, "return")
          /\ hist' = PlotOutcome(hist, ok, pc')
    /\ UNCHANGED <<parameters, image, args, loc, heap, spectrum>>

\* Line 415.
Return ==
    /\ pc = "return"
    /\ pc' = "done"
    /\ UNCHANGED <<parameters, image, args, loc, heap, spectrum, hist>>

\* The caller is left with the Spectrum or with the exception; the objects of
\* the call are dropped, the settings of the process stay.
Finish ==
    /\ pc \in {"done", "raised"}
    /\ pc' = "idle"
    /\ image' = NoImage
    /\ args' = NoArgs
    /\ loc' = NoLocals
    /\ heap' = NoHeap
    /\ spectrum' = NewSpectrum
    /\ hist' = [NewHist(hist) EXCEPT !.calls = hist.calls]
    /\ UNCHANGED parameters

----------------------------------------------------------------------------

Next ==
    \/ LoadConfig
    \/ Call
    \/ CheckMode
    \/ CropRotated
    \/ BgdRotated
    \/ BgdRotatedIterate
    \/ BgdRotatedExit
    \/ TransverseFit
    \/ PlotTable
    \/ GlobalFit1D
    \/ Derotate
    \/ RecomputeWindows
    \/ CropRaw
    \/ BgdRaw
    \/ Reinit2D
    \/ GlobalFit2D
    \/ Finalize
    \/ PlotFwhm
    \/ PlotSummary
    \/ Return
    \/ Finish

Spec == Init /\ [][Next]_vars

----------------------------------------------------------------------------
(* Properties *)

Running == pc \notin {"idle"}

Rows(id) == Len(heap[id].table)

Range(f) == {f[i] : i \in DOMAIN f}

IsPrefix(a, b) == Len(a) <= Len(b) /\ \A i \in 1..Len(a) : a[i] = b[i]

NonIncreasing(f) == \A i \in 1..(Len(f) - 1) : f[i + 1] <= f[i]

\* C1: with an extraction mode other than PSF_1D and PSF_2D the call raises
\* NotImplementedError before anything else: no array was read, no background
\* estimated, no stage run, the box size and the Spectrum are untouched.
C1_UnsupportedModeRaisesFirst ==
    (pc \notin {"idle", "check_mode"}
     /\ parameters.PSF_EXTRACTION_MODE # "PSF_1D"
     /\ parameters.PSF_EXTRACTION_MODE # "PSF_2D")
    => /\ pc = "raised"
       /\ hist.err = "NotImplementedError"
       /\ ~hist.arrays_read
       /\ hist.box_log = <<>>
       /\ hist.trace = <<>>
       /\ parameters.PIXWIDTH_BOXSIZE = hist.box_at_entry
       /\ spectrum = NewSpectrum
       /\ heap = NoHeap

C1_Witness ==
    /\ pc = "raised"
    /\ parameters.PSF_EXTRACTION_MODE = "PSF_0D"
    /\ hist.err = "NotImplementedError"

\* Number of halvings that bring the box size b to the floor.
RECURSIVE HalvingsToFloor(_)
HalvingsToFloor(b) == IF b <= 5 THEN 0 ELSE 1 + HalvingsToFloor(Max(5, b \div 2))

\* C2: the refinement loop of the rotated pass stops once the box size has
\* reached the floor 5, whatever the pull: from a starting box size b it runs
\* at most as many iterations as it takes to halve b down to 5.
C2_RefinementStopsAtFloor ==
    hist.iters <= HalvingsToFloor(hist.box_at_entry)

\* C3 (as stated): at every background estimation of a call the box size is
\* at least 5, and it never increases from one estimation to the next.
C3_BoxNeverBelowFloor ==
    /\ \A i \in 1..Len(hist.box_log) : hist.box_log[i] >= 5
    /\ NonIncreasing(hist.box_log)

\* C3 (amended): the box size never increases from one estimation to the
\* next, every refinement iteration sets it to max(5, box // 2), and it is
\* at least 5 at every estimation of a call entered with a box size of at
\* least 5; a configured box size below 5 is used as it is.
C3_BoxMonotoneWithFloor ==
    /\ NonIncreasing(hist.box_log)
    /\ \A i \in 1..Len(hist.box_log) :
          /\ hist.box_at_entry >= 5 => hist.box_log[i] >= 5
          /\ hist.box_at_entry < 5 => hist.box_log[i] = hist.box_at_entry
          /\ (1 < i /\ i <= hist.iters + 1)
                => hist.box_log[i] = Max(5, hist.box_log[i - 1] \div 2)

C3_Witness ==
    /\ pc = "done"
    /\ hist.iters >= 2
    /\ Len(hist.box_log) = hist.iters + 2
    /\ hist.box_log[2] < hist.box_log[1]
    /\ hist.box_log[3] < hist.box_log[2]

\* C4: the refined box size belongs to the call: the process-wide
\* parameters.PIXWIDTH_BOXSIZE keeps its configured value, and every call
\* starts its refinement from the configured value.
C4_BoxSizeOwnedByCall ==
    /\ parameters.PIXWIDTH_BOXSIZE = hist.configured_box
    /\ Running => hist.box_at_entry = hist.configured_box

RotatedTableStates == {"plot_table", "fit_1d", "derotate"}

\* C5 (as stated): the table has as many rows as the active crop has columns,
\* and that is xmax - xmin: for the rotated crop of the 1-D pass and for the
\* spectrogram, table and crop bounds of the returned Spectrum, in both modes.
C5_RowsEqualColumns ==
    /\ pc \in RotatedTableStates
          => Rows(loc.s) = loc.Nx /\ loc.Nx = loc.xmax - loc.xmin
    /\ pc = "done"
          => /\ Rows(spectrum.chromatic_psf) = spectrum.spectrogram[2]
             /\ spectrum.spectrogram[2]
                   = spectrum.spectrogram_xmax - spectrum.spectrogram_xmin

\* C5 (amended): rows == Nx == xmax - xmin holds for the rotated crop of the
\* 1-D pass; the returned spectrogram has spectrogram_xmax - spectrogram_xmin
\* columns; the returned table has that many rows in mode PSF_2D, and in mode
\* PSF_1D it keeps one row per column of the rotated crop (one per element of
\* spectrum.pixels).
C5_RowsFollowTheirCrop ==
    /\ pc \in RotatedTableStates
          => Rows(loc.s) = loc.Nx /\ loc.Nx = loc.xmax - loc.xmin
    /\ pc = "done"
          => /\ spectrum.spectrogram[2]
                   = spectrum.spectrogram_xmax - spectrum.spectrogram_xmin
             /\ Rows(spectrum.chromatic_psf) = Len(spectrum.pixels)
             /\ parameters.PSF_EXTRACTION_MODE = "PSF_2D"
                   => Rows(spectrum.chromatic_psf) = spectrum.spectrogram[2]
             /\ parameters.PSF_EXTRACTION_MODE = "PSF_1D"
                   => Rows(spectrum.chromatic_psf) = Len(loc.Dx_rot)

C5_Witness ==
    /\ pc = "done"
    /\ parameters.PSF_EXTRACTION_MODE = "PSF_1D"
    /\ Rows(spectrum.chromatic_psf) # spectrum.spectrogram[2]
    /\ spectrum.spectrogram[2] = spectrum.spectrogram_xmax - spectrum.spectrogram_xmin

Stages1D ==
    << "crop_rotated", "bgd_rotated", "transverse_fit", "fit_1D_noprior", "derotate",
       "windows_raw", "crop_raw", "bgd_raw", "finalize" >>

Stages2D ==
    << "crop_rotated", "bgd_rotated", "transverse_fit", "fit_1D_noprior", "derotate",
       "windows_raw", "crop_raw", "bgd_raw", "reinit_2d", "fit_2D_psf1d", "finalize" >>

AfterFinalize == {"plot_fwhm", "plot_summary", "return", "done"}

\* C6: the stages of a call run in the fixed order, each at most once, and a
\* call that gets past finalize has run them all; the reinitialization of the
\* table and the 2-D psf1d fit are among them if and only if the mode is
\* PSF_2D, between the unrotated background and finalize.
C6_StagesInFixedOrder ==
    LET expected == IF parameters.PSF_EXTRACTION_MODE = "PSF_2D" THEN Stages2D
                    ELSE Stages1D
    IN  /\ IsPrefix(hist.trace, expected)
        /\ pc \in AfterFinalize => hist.trace = expected

C6_Witness ==
    /\ pc = "done"
    /\ parameters.PSF_EXTRACTION_MODE = "PSF_2D"
    /\ hist.trace = Stages2D
    /\ hist.iters > 0

\* C7: the background stored as spectrogram_bgd was accepted by the pull
\* criterion over the background rows of the unrotated crop (the crop has
\* such rows and |mean(pull)| <= 1 and std(pull) <= 2 over them), or was
\* built with a box size that has reached the floor 5.
C7_RawBackgroundAccepted ==
    spectrum.spectrogram_bgd # Unset
    => \/ LET pull == PullStats(image.pull_raw, spectrum.spectrogram_bgd,
                                 bgd_index(spectrum.spectrogram[1], args.ws),
                                 spectrum.spectrogram[2])
          IN  pull[1] # NaN /\ pull[1] <= 1 /\ pull[2] <= 2
       \/ spectrum.spectrogram_bgd <= 5

\* Every row of the table s has its centre at the target position <<x0, y0>>
\* plus its offset, along x and along y.
CentreIsTargetPlusDx(s, x0) ==
    \A i \in 1..Len(s.table) : s.table[i].x_c = x0 * s.den + s.table[i].Dx
CentreIsTargetPlusDy(s, y0) ==
    \A i \in 1..Len(s.table) : s.table[i].y_c = y0 * s.den + s.table[i].Dy

DerotatedTableStates == {"crop_raw", "bgd_raw"}

\* C8 (as stated): once the table is converted to the unrotated frame every
\* row has x_c = spectrogram_x0 + Dx and y_c = spectrogram_y0 + Dy, and so has
\* the table of the returned Spectrum in both modes.
C8_CentreIsTargetPlusOffset ==
    /\ pc \in DerotatedTableStates
          => /\ CentreIsTargetPlusDx(heap[loc.s], loc.target_pixcoords_spectrogram[1])
             /\ CentreIsTargetPlusDy(heap[loc.s], loc.target_pixcoords_spectrogram[2])
    /\ pc = "done"
          => /\ CentreIsTargetPlusDx(heap[spectrum.chromatic_psf], spectrum.spectrogram_x0)
             /\ CentreIsTargetPlusDy(heap[spectrum.chromatic_psf], spectrum.spectrogram_y0)

\* C8 (amended): once the table is converted to the unrotated frame every row
\* has x_c = spectrogram_x0 + Dx and y_c = spectrogram_y0 + Dy, for any angle;
\* the table of the returned Spectrum has y_c = spectrogram_y0 + Dy in both
\* modes and x_c = spectrogram_x0 + Dx in mode PSF_1D.
C8_CentreRelationKept ==
    /\ pc \in DerotatedTableStates
          => /\ CentreIsTargetPlusDx(heap[loc.s], loc.target_pixcoords_spectrogram[1])
             /\ CentreIsTargetPlusDy(heap[loc.s], loc.target_pixcoords_spectrogram[2])
    /\ pc = "done"
          => /\ CentreIsTargetPlusDy(heap[spectrum.chromatic_psf], spectrum.spectrogram_y0)
             /\ parameters.PSF_EXTRACTION_MODE = "PSF_1D"
                   => CentreIsTargetPlusDx(heap[spectrum.chromatic_psf],
                                           spectrum.spectrogram_x0)

C8_Witness ==
    /\ pc = "done"
    /\ parameters.PSF_EXTRACTION_MODE = "PSF_2D"
    /\ image.rotation_angle # <<5, 0>>
    /\ image.fit_y_c # 0
    /\ CentreIsTargetPlusDy(heap[spectrum.chromatic_psf], spectrum.spectrogram_y0)
    /\ ~CentreIsTargetPlusDx(heap[spectrum.chromatic_psf], spectrum.spectrogram_x0)

\* C9: after a global fit failed the call has raised: it is not returning a
\* Spectrum, the failed fit is the last stage that ran, the Spectrum holds no
\* amplitudes other than those written before the failed fit, and nothing of
\* the later stages is written.
C9_FitFailurePropagates ==
    hist.fit_failed
    => /\ pc = "raised"
       /\ hist.err = "FitError"
       /\ hist.trace # <<>>
       /\ hist.trace[Len(hist.trace)] \in {"fit_1D_noprior", "fit_2D_psf1d"}
       /\ hist.trace[Len(hist.trace)] = "fit_1D_noprior"
             => spectrum.data = "transverse" /\ spectrum.chromatic_psf = 0
       /\ hist.trace[Len(hist.trace)] = "fit_2D_psf1d"
             => spectrum.data = "fit_1D_noprior" /\ spectrum.chromatic_psf = 1
       /\ spectrum.PSF_REG_writes = 0
       /\ spectrum.spectrogram = <<Unset, Unset>>

C9_Witness ==
    /\ hist.fit_failed
    /\ pc = "raised"
    /\ hist.trace[Len(hist.trace)] = "fit_2D_psf1d"

\* C10: a failure inside a diagnostic plot never aborts the extraction.
C10_PlotFailureDoesNotAbort ==
    hist.plot_failed => pc # "raised"

\* C11: the header field PSF_REG is written at most once in a call, not
\* before finalize, and exactly once in a call that returns.  Once written it
\* is -1 in mode PSF_1D; in mode PSF_2D it is the regularisation indicator of
\* the object on which the 2-D psf1d fit ran, which is the returned table and
\* not the table object of the 1-D pass, and it is not -1.
C11_PsfRegOfFittedObject ==
    /\ spectrum.PSF_REG_writes <= 1
    /\ pc \in AfterFinalize => spectrum.PSF_REG_writes = 1
    /\ (Running /\ pc \notin AfterFinalize /\ pc # "raised")
          => spectrum.PSF_REG_writes = 0 /\ spectrum.PSF_REG = Unset
    /\ (spectrum.PSF_REG_writes = 1 /\ parameters.PSF_EXTRACTION_MODE = "PSF_1D")
          => /\ spectrum.PSF_REG = 0 - 1
             /\ "fit_2D_psf1d" \notin Range(hist.trace)
    /\ (spectrum.PSF_REG_writes = 1 /\ parameters.PSF_EXTRACTION_MODE = "PSF_2D")
          => /\ spectrum.chromatic_psf = 2
             /\ heap[2].amplitude = "fit_2D_psf1d"
             /\ spectrum.PSF_REG = heap[2].opt_reg
             /\ spectrum.PSF_REG # 0 - 1

\* A 2-D extraction has returned, and its fit settled on an indicator that
\* differs from the one of the table object of the 1-D pass.
C11_Witness ==
    /\ pc = "done"
    /\ parameters.PSF_EXTRACTION_MODE = "PSF_2D"
    /\ spectrum.PSF_REG_writes = 1
    /\ heap[1].opt_reg # heap[2].opt_reg
    /\ spectrum.PSF_REG = heap[2].opt_reg

\* C12, as stated: every pull is taken over exactly the rows of the crop
\* outside the closed band [Ny/2 - w0, Ny/2 + w0]; the two boundary rows are
\* not used.
C12_RowsOutsideClosedBand ==
    \A k \in 1..Len(hist.pull_rows) :
        LET r == hist.pull_rows[k]
        IN  Range(r.rows) =
              {i \in 0..(r.Ny - 1) : 2 * i < r.Ny - 2 * r.w0 \/ 2 * i > r.Ny + 2 * r.w0}

\* C12, amended: every pull is taken over exactly the rows of the crop
\* outside the half-open band [Ny div 2 - w0, Ny div 2 + w0), each once and
\* in increasing order: the lower boundary row is left out, the upper
\* boundary row is used whenever the crop has it; every pull of a call is
\* taken over the same rows.
C12_RowsOutsideHalfOpenBand ==
    \A k \in 1..Len(hist.pull_rows) :
        LET r == hist.pull_rows[k]
            lo == (r.Ny \div 2) - r.w0
            hi == (r.Ny \div 2) + r.w0
        IN  /\ Range(r.rows) = {i \in 0..(r.Ny - 1) : i < lo \/ i >= hi}
            /\ \A j \in 1..(Len(r.rows) - 1) : r.rows[j] < r.rows[j + 1]
            /\ lo \notin Range(r.rows)
            /\ hi < r.Ny => hi \in Range(r.rows)
            /\ r = hist.pull_rows[1]

\* The pull was taken twice over a crop with an odd number of rows, with
\* the upper boundary row among the rows used.
C12_Witness ==
    /\ Len(hist.pull_rows) >= 2
    /\ hist.pull_rows[2].Ny % 2 = 1
    /\ (hist.pull_rows[2].Ny \div 2) + hist.pull_rows[2].w0
          \in Range(hist.pull_rows[2].rows)

====
